---- MODULE Spec2Model ----
(***************************************************************************)
(* Model of main.py: the conversion of the VEVENT entries of an .ics       *)
(* calendar into the rows of a CSV report.                                 *)
(*                                                                         *)
(* Text is modelled as a sequence of one-character strings, so that the    *)
(* formatting of dates, times and numbers and the quoting of CSV fields    *)
(* are computed character by character.                                    *)
(***************************************************************************)
EXTENDS Integers, Sequences, FiniteSets, TLC

VARIABLES pc, inputFile, cal, rows, outFile, console, calls, event, result

vars == <<pc, inputFile, cal, rows, outFile, console, calls, event, result>>

(***************************************************************************)
(* Bounds of the model.                                                    *)
(***************************************************************************)
MaxDay == 2
MaxEvents == 3
MaxRows == 2
MaxSummaryLen == 2

(***************************************************************************)
(* Values of the icalendar properties and of the datetime module.          *)
(***************************************************************************)
Absent == [kind |-> "absent"]

NoTz == [aware |-> FALSE, off |-> 0]

Tz(off) == [aware |-> TRUE, off |-> off]

Date(y, m, d) == [kind |-> "date", y |-> y, m |-> m, d |-> d]

DateTime(y, m, d, hh, mm, ss, tz) ==
  [kind |-> "datetime", y |-> y, m |-> m, d |-> d,
   hh |-> hh, mm |-> mm, ss |-> ss, tz |-> tz]

Time(hh, mm, ss) == [hh |-> hh, mm |-> mm, ss |-> ss]

Text(s) == [kind |-> "text", text |-> s]

\* datetime.min.time()
MinTime == Time(0, 0, 0)

\* datetime.time(): the time of day, without the time zone
TimeOf(dt) == Time(dt.hh, dt.mm, dt.ss)

\* datetime.date()
DateOf(dt) == Date(dt.y, dt.m, dt.d)

\* datetime.combine(date, time) of a plain date: a naive datetime
Combine(date, t) == DateTime(date.y, date.m, date.d, t.hh, t.mm, t.ss, NoTz)

(***************************************************************************)
(* date.toordinal(), as the datetime module computes it.                   *)
(***************************************************************************)
IsLeap(y) == y % 4 = 0 /\ (y % 100 # 0 \/ y % 400 = 0)

DaysBeforeYear(y) ==
  (y - 1) * 365 + ((y - 1) \div 4) - ((y - 1) \div 100) + ((y - 1) \div 400)

DaysBeforeMonth(y, m) ==
  <<0, 31, 59, 90, 120, 151, 181, 212, 243, 273, 304, 334>>[m]
    + (IF m > 2 /\ IsLeap(y) THEN 1 ELSE 0)

ToOrdinal(dt) == DaysBeforeYear(dt.y) + DaysBeforeMonth(dt.y, dt.m) + dt.d

SecondsOfDay(dt) == dt.ss + dt.mm * 60 + dt.hh * 3600

\* timedelta(days, seconds), normalised to 0 <= seconds < 86400
TimeDelta(days, seconds) ==
  [kind |-> "timedelta",
   days |-> days + (seconds \div 86400), seconds |-> seconds % 86400]

\* datetime.__sub__(a, b): a - b, or the TypeError of mixing a naive and an
\* aware datetime
DateTimeSub(a, b) ==
  LET base == TimeDelta(ToOrdinal(a) - ToOrdinal(b),
                        SecondsOfDay(a) - SecondsOfDay(b))
  IN  IF a.tz = b.tz THEN base
      ELSE IF a.tz.aware # b.tz.aware THEN [kind |-> "raise", exc |-> "TypeError"]
      ELSE TimeDelta(base.days, base.seconds + (b.tz.off - a.tz.off) * 60)

\* timedelta.total_seconds()
TotalSeconds(td) == td.days * 86400 + td.seconds

(***************************************************************************)
(* Formatting.                                                             *)
(***************************************************************************)
Digit(n) == <<"0", "1", "2", "3", "4", "5", "6", "7", "8", "9">>[n + 1]

Pad2(n) == <<Digit((n \div 10) % 10), Digit(n % 10)>>

Pad4(n) == Pad2(n \div 100) \o Pad2(n % 100)

\* date.isoformat(): YYYY-MM-DD
IsoFormat(date) == Pad4(date.y) \o <<"-">> \o Pad2(date.m) \o <<"-">> \o Pad2(date.d)

\* time.strftime("%H:%M")
StrfTimeHM(t) == Pad2(t.hh) \o <<":">> \o Pad2(t.mm)

RECURSIVE NatToStr(_)
NatToStr(n) == IF n < 10 THEN <<Digit(n)>> ELSE NatToStr(n \div 10) \o <<Digit(n % 10)>>

\* str(int)
IntToStr(n) == IF n < 0 THEN <<"-">> \o NatToStr(-n) ELSE NatToStr(n)

(***************************************************************************)
(* event_to_row                                                            *)
(***************************************************************************)
None == [kind |-> "none"]

Raise(exc) == [kind |-> "raise", exc |-> exc]

\* "not dtstart": a property that is missing is None, a present one is truthy
Not(prop) == prop = Absent

Missing_and(dtstart, dtend) == Not(dtstart) /\ Not(dtend)
\* if not dtstart or not dtend
Missing(dtstart, dtend) == Not(dtstart) \/ Not(dtend)

\* isinstance(prop.dt, datetime) ? prop.dt : datetime.combine(prop.dt, min.time())
Normalize(dt) == IF dt.kind = "datetime" THEN dt ELSE Combine(dt, MinTime)

IsAllDay_otherDay(start_dt, end_dt) ==
  /\ TimeOf(start_dt) = MinTime
  /\ TimeOf(end_dt) = MinTime
  /\ DateOf(start_dt) # DateOf(end_dt)
\* start_dt.time() == datetime.min.time() and end_dt.time() == datetime.min.time()
IsAllDay(start_dt, end_dt) == TimeOf(start_dt) = MinTime /\ TimeOf(end_dt) = MinTime

\* date_str = start_dt.date().isoformat()
RowDate(start_dt, end_dt) == IsoFormat(DateOf(start_dt))

\* event.get("SUMMARY", "")
Summary(ev) == IF ev.SUMMARY = Absent THEN <<>> ELSE ev.SUMMARY.text

FloorDiv_trunc(a, b) == IF a < 0 THEN -((-a) \div b) ELSE a \div b
\* a // b
FloorDiv(a, b) == a \div b

Elapsed_reversed(end_dt, start_dt) == DateTimeSub(start_dt, end_dt)
\* end_dt - start_dt
Elapsed(end_dt, start_dt) == DateTimeSub(end_dt, start_dt)

\* int((end_dt - start_dt).total_seconds() // 60)
Duration(delta) == FloorDiv(TotalSeconds(delta), 60)

event_to_row(ev) ==
  LET dtstart == ev.DTSTART
      dtend == ev.DTEND
  IN  IF Missing(dtstart, dtend) THEN None
      \* dtstart.dt, dtend.dt: the attribute of None
      ELSE IF Not(dtstart) \/ Not(dtend) THEN Raise("AttributeError")
      ELSE
        LET start_dt == Normalize(dtstart)
            end_dt == Normalize(dtend)
        IN  IF IsAllDay(start_dt, end_dt) THEN None
            ELSE
              LET date_str == RowDate(start_dt, end_dt)
                  start_str == StrfTimeHM(TimeOf(start_dt))
                  end_str == StrfTimeHM(TimeOf(end_dt))
                  summary == Summary(ev)
                  delta == Elapsed(end_dt, start_dt)
              IN  IF delta.kind = "raise" THEN Raise(delta.exc)
                  ELSE [kind |-> "row",
                        row |-> <<date_str, start_str, end_str, summary,
                                  Duration(delta)>>]

(***************************************************************************)
(* parse_events                                                            *)
(***************************************************************************)
AppendRow_front(acc, row) == <<row>> \o acc
\* rows.append(row)
AppendRow(acc, row) == Append(acc, row)

\* "if row": None is falsy, a tuple of five fields is truthy
Truthy(res) == res.kind = "row"

\* for component in cal.walk("VEVENT"): ...
RECURSIVE Walk(_, _, _)
Walk(events, i, acc) ==
  IF i > Len(events) THEN [kind |-> "return", rows |-> acc]
  ELSE LET row == event_to_row(events[i])
       IN  IF row.kind = "raise" THEN row
           ELSE IF Truthy(row) THEN Walk(events, i + 1, AppendRow(acc, row.row))
           ELSE Walk(events, i + 1, acc)

parse_events(events) == Walk(events, 1, <<>>)

(***************************************************************************)
(* write_csv: csv.writer with the default dialect (delimiter ",", quote    *)
(* character '"', doubled quotes, minimal quoting, line terminator CR LF). *)
(***************************************************************************)
Comma == ","

Quote == "\""

CR == "\r"

LF == "\n"

Header ==
  << <<"D", "a", "t", "e">>,
     <<"S", "t", "a", "r", "t">>,
     <<"E", "n", "d">>,
     <<"S", "u", "m", "m", "a", "r", "y">>,
     <<"D", "u", "r", "a", "t", "i", "o", "n", "(", "m", "i", "n", ")">> >>

\* the writer's conversion of the fields of a row to text: str(field)
RowFields(row) == <<row[1], row[2], row[3], row[4], IntToStr(row[5])>>

NeedsQuotes_delimiterOnly(field) == \E k \in 1..Len(field) : field[k] = Comma
\* minimal quoting: the field holds the delimiter, the quote character or a
\* character of the line terminator
NeedsQuotes(field) == \E k \in 1..Len(field) : field[k] \in {Comma, Quote, CR, LF}

RECURSIVE DoubleQuotes(_)
DoubleQuotes(field) ==
  IF field = <<>> THEN <<>>
  ELSE (IF Head(field) = Quote THEN <<Quote, Quote>> ELSE <<Head(field)>>)
         \o DoubleQuotes(Tail(field))

WriteField(field) ==
  IF NeedsQuotes(field) THEN <<Quote>> \o DoubleQuotes(field) \o <<Quote>>
  ELSE field

RECURSIVE JoinFields(_)
JoinFields(fields) ==
  IF Len(fields) = 1 THEN WriteField(fields[1])
  ELSE WriteField(Head(fields)) \o <<Comma>> \o JoinFields(Tail(fields))

\* writer.writerow(fields)
WriteRow(fields) == JoinFields(fields) \o <<CR, LF>>

\* writer.writerows(rows)
RECURSIVE WriteRows(_)
WriteRows(rs) ==
  IF rs = <<>> THEN <<>> ELSE WriteRow(RowFields(Head(rs))) \o WriteRows(Tail(rs))

\* the text write_csv puts in the file
write_csv(rs) == WriteRow(Header) \o WriteRows(rs)

(***************************************************************************)
(* csv.reader with the same dialect, reading the file opened with          *)
(* newline="": the records of a text.                                      *)
(***************************************************************************)
ReaderStart == [st |-> "START_RECORD", field |-> <<>>, rec |-> <<>>, recs |-> <<>>]

\* the reader's step on one character; a CR outside quotes ends the line
\* together with a LF that follows it
ReaderStep(s, c) ==
  LET st == IF s.st = "AFTER_CR" /\ c # LF THEN "START_RECORD" ELSE s.st
      endField == Append(s.rec, s.field)
      EndRecord(next) ==
        [st |-> next, field |-> <<>>, rec |-> <<>>, recs |-> Append(s.recs, endField)]
      EndField == [st |-> "START_FIELD", field |-> <<>>, rec |-> endField, recs |-> s.recs]
      AddChar(next) == [s EXCEPT !.st = next, !.field = Append(s.field, c)]
  IN  CASE st = "AFTER_CR" -> [s EXCEPT !.st = "START_RECORD"]
        [] st = "START_RECORD" /\ c \in {CR, LF} ->
             [s EXCEPT !.st = IF c = CR THEN "AFTER_CR" ELSE "START_RECORD",
                       !.recs = Append(s.recs, <<>>)]
        [] st \in {"START_RECORD", "START_FIELD"} /\ c \notin {CR, LF} ->
             IF c = Quote THEN [s EXCEPT !.st = "IN_QUOTED_FIELD"]
             ELSE IF c = Comma THEN EndField
             ELSE AddChar("IN_FIELD")
        [] st \in {"START_FIELD", "IN_FIELD", "QUOTE_IN_QUOTED_FIELD"} /\ c \in {CR, LF} ->
             EndRecord(IF c = CR THEN "AFTER_CR" ELSE "START_RECORD")
        [] st = "IN_FIELD" /\ c \notin {CR, LF} ->
             IF c = Comma THEN EndField ELSE AddChar("IN_FIELD")
        [] st = "IN_QUOTED_FIELD" ->
             IF c = Quote THEN [s EXCEPT !.st = "QUOTE_IN_QUOTED_FIELD"]
             ELSE AddChar("IN_QUOTED_FIELD")
        [] st = "QUOTE_IN_QUOTED_FIELD" /\ c \notin {CR, LF} ->
             IF c = Quote THEN AddChar("IN_QUOTED_FIELD")
             ELSE IF c = Comma THEN EndField
             ELSE AddChar("IN_FIELD")

\* the reader's state after the characters lo..hi of the text, the left half
\* being read before the right one (no reader state is "")
RECURSIVE ReaderRun(_, _, _, _)
ReaderRun(text, lo, hi, s) ==
  IF lo > hi THEN s
  ELSE IF lo = hi THEN ReaderStep(s, text[lo])
  ELSE LET mid == (lo + hi) \div 2
           left == ReaderRun(text, lo, mid, s)
       IN  IF left.st = "" THEN left ELSE ReaderRun(text, mid + 1, hi, left)

\* the records at the end of the input; a record without its line end is kept
ReaderEnd(s) ==
  IF s.st \in {"START_RECORD", "AFTER_CR"} THEN s.recs
  ELSE Append(s.recs, Append(s.rec, s.field))

\* list(csv.reader(f))
csv_reader(text) == ReaderEnd(ReaderRun(text, 1, Len(text), ReaderStart))

(***************************************************************************)
(* The event entries the extractor is applied to.                          *)
(***************************************************************************)
Dates == {Date(2023, 12, 31)} \cup {Date(2024, 1, d) : d \in 1..MaxDay}

Times == {Time(0, 0, 0), Time(0, 0, 30), Time(9, 0, 0), Time(9, 59, 30),
          Time(17, 30, 0)}

Zones == {NoTz, Tz(0), Tz(60)}

DateTimes ==
  {DateTime(d.y, d.m, d.d, t.hh, t.mm, t.ss, z) : d \in Dates, t \in Times, z \in Zones}

PropValues == {Absent} \cup Dates \cup DateTimes

Work == <<"W", "o", "r", "k">>

Summaries == {Absent, Text(<<>>), Text(Work)}

Events == [DTSTART : PropValues, DTEND : PropValues, SUMMARY : Summaries]

NoEvent == [DTSTART |-> Absent, DTEND |-> Absent, SUMMARY |-> Absent]

Idle == [kind |-> "idle"]

(***************************************************************************)
(* SpecRow: event_to_row applied to one event entry.                       *)
(***************************************************************************)
InitRow ==
  /\ pc = "row_call"
  /\ event \in Events
  /\ result = Idle
  /\ inputFile = Idle
  /\ cal = <<>>
  /\ rows = <<>>
  /\ outFile = Idle
  /\ console = <<>>
  /\ calls = <<>>

EventToRow ==
  /\ pc = "row_call"
  /\ result' = event_to_row(event)
  /\ pc' = "row_done"
  /\ UNCHANGED <<inputFile, cal, rows, outFile, console, calls, event>>

NextRow == EventToRow

SpecRow == InitRow /\ [][NextRow]_vars

(***************************************************************************)
(* Spec: main, from the reading of the input file to the end of the        *)
(* process.                                                                *)
(***************************************************************************)
EvWork ==
  [DTSTART |-> DateTime(2024, 1, 1, 9, 0, 0, NoTz),
   DTEND |-> DateTime(2024, 1, 1, 17, 30, 0, NoTz),
   SUMMARY |-> Text(Work)]

EvAllDay ==
  [DTSTART |-> Date(2024, 1, 1), DTEND |-> Date(2024, 1, 2), SUMMARY |-> Text(Work)]

EvNoEnd ==
  [DTSTART |-> DateTime(2024, 1, 1, 9, 0, 0, NoTz), DTEND |-> Absent, SUMMARY |-> Absent]

EvMixed ==
  [DTSTART |-> DateTime(2024, 1, 1, 9, 0, 0, NoTz),
   DTEND |-> DateTime(2024, 1, 1, 17, 30, 0, Tz(0)),
   SUMMARY |-> Text(Work)]

EvEarly ==
  [DTSTART |-> DateTime(2023, 12, 31, 9, 0, 0, Tz(0)),
   DTEND |-> DateTime(2023, 12, 31, 9, 59, 30, Tz(0)),
   SUMMARY |-> Text(<<"a", ",", "b">>)]

CalendarEvents == {EvWork, EvAllDay, EvNoEnd, EvMixed, EvEarly}

Calendars == UNION {[1..n -> CalendarEvents] : n \in 0..MaxEvents}

InputFiles ==
  {[kind |-> "unreadable"], [kind |-> "malformed"]}
    \cup {[kind |-> "ics", events |-> c] : c \in Calendars}

NoFile == [exists |-> FALSE, text |-> <<>>]

OldFile == [exists |-> TRUE, text |-> <<"o", "l", "d">>]

Warning == [kind |-> "warning"]

Converted(n) == [kind |-> "converted", count |-> n]

Traceback(where, exc) == [kind |-> "traceback", where |-> where, exc |-> exc]

Init ==
  /\ pc = "start"
  /\ inputFile \in InputFiles
  /\ cal = <<>>
  /\ rows = <<>>
  /\ outFile \in {NoFile, OldFile}
  /\ console = <<>>
  /\ calls = [load |-> 0, parse |-> 0, write |-> 0]
  /\ event = NoEvent
  /\ result = Idle

\* cal = load_calendar(args.ics_file)
LoadCalendar ==
  /\ pc = "start"
  /\ inputFile.kind = "ics"
  /\ calls' = [calls EXCEPT !.load = @ + 1]
  /\ cal' = inputFile.events
  /\ pc' = "loaded"
  /\ UNCHANGED <<inputFile, rows, outFile, console, event, result>>

LoadCalendarFails_swallowed ==
  /\ pc = "start"
  /\ inputFile.kind # "ics"
  /\ calls' = [calls EXCEPT !.load = @ + 1]
  /\ cal' = <<>>
  /\ pc' = "loaded"
  /\ UNCHANGED <<inputFile, rows, outFile, console, event, result>>
\* open() or Calendar.from_ical() raises: the error ends the process
LoadCalendarFails ==
  /\ pc = "start"
  /\ inputFile.kind # "ics"
  /\ calls' = [calls EXCEPT !.load = @ + 1]
  /\ console' = Append(console,
        Traceback("load_calendar",
                  IF inputFile.kind = "unreadable" THEN "OSError" ELSE "ValueError"))
  /\ pc' = "failed"
  /\ UNCHANGED <<inputFile, cal, rows, outFile, event, result>>

\* rows = parse_events(cal)
ParseEvents ==
  /\ pc = "loaded"
  /\ parse_events(cal).kind = "return"
  /\ calls' = [calls EXCEPT !.parse = @ + 1]
  /\ rows' = parse_events(cal).rows
  /\ pc' = "extracted"
  /\ UNCHANGED <<inputFile, cal, outFile, console, event, result>>

\* event_to_row raises inside parse_events: the error ends the process
ParseEventsRaises ==
  /\ pc = "loaded"
  /\ parse_events(cal).kind = "raise"
  /\ calls' = [calls EXCEPT !.parse = @ + 1]
  /\ console' = Append(console, Traceback("parse_events", parse_events(cal).exc))
  /\ pc' = "failed"
  /\ UNCHANGED <<inputFile, cal, rows, outFile, event, result>>

NoRows_never(rs) == FALSE
\* if not rows
NoRows(rs) == rs = <<>>

\* print(f"Warning: No events found in {args.ics_file}")
WarnNoEvents ==
  /\ pc = "extracted"
  /\ NoRows(rows)
  /\ console' = Append(console, Warning)
  /\ pc' = "done"
  /\ UNCHANGED <<inputFile, cal, rows, outFile, calls, event, result>>

\* write_csv(rows, args.output)
WriteCsv ==
  /\ pc = "extracted"
  /\ ~NoRows(rows)
  /\ calls' = [calls EXCEPT !.write = @ + 1]
  /\ outFile' = [exists |-> TRUE, text |-> write_csv(rows)]
  /\ pc' = "written"
  /\ UNCHANGED <<inputFile, cal, rows, console, event, result>>

\* open(out_path, "w") raises: the file is not touched
WriteCsvOpenFails ==
  /\ pc = "extracted"
  /\ ~NoRows(rows)
  /\ calls' = [calls EXCEPT !.write = @ + 1]
  /\ console' = Append(console, Traceback("write_csv", "OSError"))
  /\ pc' = "failed"
  /\ UNCHANGED <<inputFile, cal, rows, outFile, event, result>>

\* a write raises after open() truncated the file: a part of the text is in it
WriteCsvWriteFails ==
  /\ pc = "extracted"
  /\ ~NoRows(rows)
  /\ \E n \in 0..(Len(write_csv(rows)) - 1) :
        outFile' = [exists |-> TRUE, text |-> SubSeq(write_csv(rows), 1, n)]
  /\ calls' = [calls EXCEPT !.write = @ + 1]
  /\ console' = Append(console, Traceback("write_csv", "OSError"))
  /\ pc' = "failed"
  /\ UNCHANGED <<inputFile, cal, rows, event, result>>

\* print(f"Converted {len(rows)} events to {args.output}")
ReportConverted ==
  /\ pc = "written"
  /\ console' = Append(console, Converted(Len(rows)))
  /\ pc' = "done"
  /\ UNCHANGED <<inputFile, cal, rows, outFile, calls, event, result>>

Next ==
  \/ LoadCalendar
  \/ LoadCalendarFails
  \/ ParseEvents
  \/ ParseEventsRaises
  \/ WarnNoEvents
  \/ WriteCsv
  \/ WriteCsvOpenFails
  \/ WriteCsvWriteFails
  \/ ReportConverted

Spec == Init /\ [][Next]_vars

(***************************************************************************)
(* SpecCsv: write_csv applied to a list of rows.                           *)
(***************************************************************************)
CsvChars == {Comma, Quote, CR, LF}

CsvSummaries == UNION {[1..n -> CsvChars] : n \in 0..MaxSummaryLen}

CsvDate == <<"2", "0", "2", "4", "-", "0", "1", "-", "0", "1">>

CsvStart == <<"0", "9", ":", "0", "0">>

CsvEnd == <<"1", "7", ":", "3", "0">>

CsvRows ==
  {<<CsvDate, CsvStart, CsvEnd, s, 510>> : s \in CsvSummaries}
    \cup {<<CsvDate, CsvStart, CsvEnd, Work, -1>>}

CsvRowLists == UNION {[1..n -> CsvRows] : n \in 0..MaxRows}

InitCsv ==
  /\ pc = "csv_call"
  /\ rows \in CsvRowLists
  /\ outFile = NoFile
  /\ inputFile = Idle
  /\ cal = <<>>
  /\ console = <<>>
  /\ calls = <<>>
  /\ event = NoEvent
  /\ result = Idle

WriteCsvCall ==
  /\ pc = "csv_call"
  /\ outFile' = [exists |-> TRUE, text |-> write_csv(rows)]
  /\ pc' = "csv_done"
  /\ UNCHANGED <<inputFile, cal, rows, console, calls, event, result>>

NextCsv == WriteCsvCall

SpecCsv == InitCsv /\ [][NextCsv]_vars

(***************************************************************************)
(* Vocabulary of the properties of event_to_row.                           *)
(***************************************************************************)
Returned == pc = "row_done"

HasBoth == event.DTSTART # Absent /\ event.DTEND # Absent

\* a date-only value, or a datetime whose time of day is 00:00:00
AtMidnight(v) ==
  v.kind = "date" \/ (v.kind = "datetime" /\ v.hh = 0 /\ v.mm = 0 /\ v.ss = 0)

BothMidnight == HasBoth /\ AtMidnight(event.DTSTART) /\ AtMidnight(event.DTEND)

HourOf(v) == IF v.kind = "date" THEN 0 ELSE v.hh

MinuteOf(v) == IF v.kind = "date" THEN 0 ELSE v.mm

SecondOf(v) == IF v.kind = "date" THEN 0 ELSE v.ss

OffsetOf(v) == IF v.kind = "date" THEN 0 ELSE v.tz.off

IsAware(v) == v.kind = "datetime" /\ v.tz.aware

\* seconds from the midnight (UTC) of its date to the instant of a value
UtcSecondsOfDay(v) == HourOf(v) * 3600 + MinuteOf(v) * 60 + SecondOf(v) - OffsetOf(v) * 60

\* S of the claim: the seconds of (end - start)
IntervalSeconds ==
  (ToOrdinal(event.DTEND) - ToOrdinal(event.DTSTART)) * 86400
    + UtcSecondsOfDay(event.DTEND) - UtcSecondsOfDay(event.DTSTART)

\* C1: an entry whose normalized start and end are both at midnight gives no
\* row, from event_to_row and from parse_events, whether the values are bare
\* dates or datetimes and whether they are on the same day or not.
C1_AllDaySkipped ==
  (Returned /\ BothMidnight) =>
     /\ result = None
     /\ parse_events(<<event>>) = [kind |-> "return", rows |-> <<>>]

\* a timed event from midnight to midnight of the same day, which is skipped
C1_Witness ==
  /\ Returned
  /\ event.DTSTART = DateTime(2024, 1, 1, 0, 0, 0, NoTz)
  /\ event.DTEND = DateTime(2024, 1, 1, 0, 0, 0, NoTz)
  /\ result = None

\* C2: an entry without a start, without an end or without both gives no row
\* and no error, whatever its other fields are.
C2_MissingSkipped ==
  (Returned /\ ~HasBoth) =>
     /\ result = None
     /\ parse_events(<<event>>) = [kind |-> "return", rows |-> <<>>]

C2_Witness ==
  /\ Returned
  /\ event.DTSTART = DateTime(2024, 1, 1, 9, 0, 0, NoTz)
  /\ event.DTEND = Absent
  /\ event.SUMMARY = Text(Work)
  /\ result = None

\* C3: the duration of an emitted row is floor(S / 60) for S the seconds of
\* end - start: 59 for 59 minutes 30 seconds, -1 for -30 seconds.
C3_DurationIsFloor ==
  (Returned /\ result.kind = "row") =>
     /\ result.row[5] \in Int
     /\ 60 * result.row[5] <= IntervalSeconds
     /\ IntervalSeconds < 60 * result.row[5] + 60
     /\ IntervalSeconds = 3570 => result.row[5] = 59
     /\ IntervalSeconds = -30 => result.row[5] = -1

\* the end is 30 seconds before the start and the duration is -1
C3_Witness ==
  /\ Returned
  /\ result.kind = "row"
  /\ IntervalSeconds = -30
  /\ result.row[5] = -1

\* C4 as stated: the duration of every emitted row is a non-negative integer.
C4_DurationNonNegative ==
  (Returned /\ result.kind = "row") => (result.row[5] \in Nat)

\* C4 as amended: the duration of an emitted row is an integer that is
\* non-negative exactly when the end is not before the start.
C4_DurationSign ==
  (Returned /\ result.kind = "row") =>
     /\ result.row[5] \in Int
     /\ (result.row[5] >= 0) <=> (IntervalSeconds >= 0)

\* a row whose end is a day and more before its start
C4_Witness ==
  /\ Returned
  /\ result.kind = "row"
  /\ event.DTSTART = DateTime(2024, 1, 2, 9, 0, 0, NoTz)
  /\ event.DTEND = DateTime(2024, 1, 1, 17, 30, 0, NoTz)
  /\ result.row[5] < 0

\* C8: event_to_row ends by returning a row or no row and never by raising,
\* for every combination of absent, date-only, naive and aware values.
C8_NeverRaises ==
  Returned => result.kind \in {"row", "none"}

\* C10: an entry with both values that is not all-day gives one row: the ISO
\* date of the start, the HH:MM of start and end, the summary or "".
C10_RowFields ==
  (Returned /\ HasBoth /\ ~BothMidnight) =>
     /\ result.kind = "row"
     /\ result.row[1] = Pad4(event.DTSTART.y) \o <<"-">> \o Pad2(event.DTSTART.m)
                          \o <<"-">> \o Pad2(event.DTSTART.d)
     /\ result.row[2] = Pad2(HourOf(event.DTSTART)) \o <<":">>
                          \o Pad2(MinuteOf(event.DTSTART))
     /\ result.row[3] = Pad2(HourOf(event.DTEND)) \o <<":">>
                          \o Pad2(MinuteOf(event.DTEND))
     /\ result.row[4] = (IF event.SUMMARY = Absent THEN <<>> ELSE event.SUMMARY.text)
     /\ (/\ event.DTSTART = DateTime(2024, 1, 1, 9, 0, 0, NoTz)
         /\ event.DTEND = DateTime(2024, 1, 1, 17, 30, 0, NoTz)
         /\ event.SUMMARY = Text(Work))
        => result.row = << <<"2", "0", "2", "4", "-", "0", "1", "-", "0", "1">>,
                           <<"0", "9", ":", "0", "0">>,
                           <<"1", "7", ":", "3", "0">>,
                           Work, 510 >>

\* C10 for the entries whose start and end are both naive or both aware
C10_RowFieldsSameKind ==
  (IsAware(event.DTSTART) = IsAware(event.DTEND)) => C10_RowFields


(***************************************************************************)
(* Properties of write_csv.                                                *)
(***************************************************************************)
HeaderLine ==
  <<"D", "a", "t", "e", ",", "S", "t", "a", "r", "t", ",", "E", "n", "d", ",",
    "S", "u", "m", "m", "a", "r", "y", ",",
    "D", "u", "r", "a", "t", "i", "o", "n", "(", "m", "i", "n", ")", "\r", "\n">>

HeaderRecord ==
  << <<"D", "a", "t", "e">>, <<"S", "t", "a", "r", "t">>, <<"E", "n", "d">>,
     <<"S", "u", "m", "m", "a", "r", "y">>,
     <<"D", "u", "r", "a", "t", "i", "o", "n", "(", "m", "i", "n", ")">> >>

\* the decimal text of the durations of the rows that are written
Decimal(d) ==
  CASE d = 510 -> <<"5", "1", "0">>
    [] d = 59 -> <<"5", "9">>
    [] d = -1 -> <<"-", "1">>

\* the records that reading the file back is to give
Records(rs) ==
  <<HeaderRecord>> \o [k \in 1..Len(rs) |->
                         <<rs[k][1], rs[k][2], rs[k][3], rs[k][4], Decimal(rs[k][5])>>]

\* C7: the file holds the header line and then one record per row in the
\* order given, and reading it back gives the header and the same rows, every
\* summary unchanged.
C7_CsvRoundTrip ==
  pc = "csv_done" =>
     LET records == csv_reader(outFile.text)
     IN  /\ Len(outFile.text) >= Len(HeaderLine)
         /\ SubSeq(outFile.text, 1, Len(HeaderLine)) = HeaderLine
         /\ Len(records) = Len(rows) + 1
         /\ records = Records(rows)

\* two rows, a summary of a comma and a quote and one of a line end
C7_Witness ==
  /\ pc = "csv_done"
  /\ Len(rows) = 2
  /\ rows[1][4] = <<",", "\"">>
  /\ rows[2][4] = <<"\r", "\n">>
  /\ csv_reader(outFile.text)[2][4] = <<",", "\"">>

(***************************************************************************)
(* Properties of parse_events and of main.                                 *)
(***************************************************************************)
Extracted == pc \in {"extracted", "written", "done"}

\* the positions of the entries of the calendar that give a row
RowPositions == {i \in 1..Len(cal) : event_to_row(cal[i]).kind = "row"}

\* the k-th of these positions, in the order of the document
Position(k) == CHOOSE i \in RowPositions : Cardinality({j \in RowPositions : j <= i}) = k

\* C5: the rows parse_events returns are the rows of the entries that give
\* one, in the order of the document: one row per such entry, duplicates
\* kept, nothing sorted, and no more rows than entries.
C5_DocumentOrder ==
  Extracted =>
     /\ Len(rows) = Cardinality(RowPositions)
     /\ Len(rows) <= Len(cal)
     /\ \A k \in 1..Len(rows) : rows[k] = event_to_row(cal[Position(k)]).row

\* the later date first, the same entry twice, and a skipped entry between
C5_Witness ==
  /\ pc = "extracted"
  /\ cal = <<EvWork, EvAllDay, EvEarly>>
  /\ Len(rows) = 2
  /\ rows[1][1] = CsvDate
  /\ rows[2][1] = <<"2", "0", "2", "3", "-", "1", "2", "-", "3", "1">>

C6_AtExit ==
  pc = "done" =>
     IF rows = <<>>
     THEN console = <<Warning>> /\ calls.write = 0
     ELSE /\ calls.write = 1
          /\ outFile.exists
          /\ csv_reader(outFile.text) = Records(rows)
          /\ console = <<Converted(Len(csv_reader(outFile.text)) - 1)>>
          /\ console = <<Converted(Len(rows))>>

C6_Step ==
  /\ (pc = "extracted" /\ rows = <<>>) =>
        /\ pc' = "done"
        /\ outFile' = outFile
        /\ calls'.write = 0
        /\ console' = <<Warning>>
  /\ (pc = "extracted" /\ rows # <<>>) => calls'.write = 1
  /\ pc = "written" => (pc' = "done" /\ outFile' = outFile /\ calls' = calls)

\* C6: after the Loader and the Extractor succeeded, an empty row sequence
\* gives a warning, no call of the Writer, an untouched output path and a
\* successful exit; a non-empty one gives one call of the Writer with all the
\* rows and a reported count equal to the number of rows written.
C6_Orchestrator == [](C6_AtExit) /\ [][C6_Step]_vars

\* a calendar of one all-day entry: a warning, the old file as it was
C6_Witness ==
  /\ pc = "done"
  /\ cal = <<EvAllDay>>
  /\ rows = <<>>
  /\ console = <<Warning>>
  /\ calls.write = 0
  /\ outFile = OldFile

WriterFailed ==
  \E k \in 1..Len(console) :
     console[k].kind = "traceback" /\ console[k].where = "write_csv"

C9_Order ==
  /\ calls.load <= 1 /\ calls.parse <= calls.load /\ calls.write <= calls.parse
  /\ calls.write = 1 => rows # <<>>
  /\ (pc # "start" /\ inputFile.kind # "ics") =>
        (pc = "failed" /\ calls.parse = 0 /\ calls.write = 0)
  /\ WriterFailed =>
        (pc = "failed" /\ \A k \in 1..Len(console) : console[k].kind # "converted")

C9_Step ==
  /\ pc # "failed"
  /\ (pc = "start" /\ inputFile.kind # "ics") => (pc' = "failed" /\ outFile' = outFile)

\* C9: Loader, Extractor and Writer run in this order, each at most once, the
\* Writer only for a non-empty row sequence. A failure of the Loader ends the
\* process in the failure state with the Extractor and the Writer not called
\* and the output path unchanged; a failure of the Writer ends it in the
\* failure state with no summary reported; nothing is retried.
C9_Pipeline == [](C9_Order) /\ [][C9_Step]_vars

\* a malformed input: the failure state, the old file as it was
C9_Witness ==
  /\ pc = "failed"
  /\ inputFile.kind = "malformed"
  /\ calls = [load |-> 1, parse |-> 0, write |-> 0]
  /\ outFile = OldFile

====
